---- MODULE Spec2Model ----
(***************************************************************************)
(* A model of populate.py: the row normalisation of the DataMangler        *)
(* strategies, the directory digest (hash_file, hash_dirs) and the session *)
(* run by main() around a DirChecker.                                      *)
(*                                                                         *)
(* Text is a sequence of one-character strings; a path is a sequence of    *)
(* path components, each a text; a directory tree is a function from the   *)
(* relative paths of its files to their bytes.                             *)
(***************************************************************************)
EXTENDS Integers, Sequences, FiniteSets, TLC

VARIABLES
    \* ---- one DataMangler strategy run on one fetched stream
    mpath,          \* destination path of the item
    mstream,        \* the fetched stream: header row, then the data rows
    mfile,          \* the destination file: absent, or its bytes
    mold,           \* the destination file as it was before the run
    mpc,            \* "ready" | "done"
    mexc,           \* exception that left the strategy, or "none"
    mrows,          \* what mangle_rows returned, when it returned
    \* ---- one hash_dirs call
    htree,          \* the tree under the digest root
    htree2,         \* a second tree under a second root (SpecHashPair)
    hcwd,           \* "root" when the working directory is the digest root
    hcwdFiles,      \* the files found relative to another working directory
    hpc,            \* "ready" | "done"
    hres,           \* result of hash_dirs on htree
    hres2,          \* result of hash_dirs on htree2
    \* ---- main(): the session
    pc,             \* position of main()
    exc,            \* exception propagating out of main(), or "none"
    items,          \* what get_paths() yields: destination paths
    idx,            \* index of the next item of the loop
    fs,             \* the mirror: the tree under data_dir
    cwd,            \* "root" when the working directory is data_dir
    cwdFiles,       \* the files found relative to another working directory
    initial_digest, \* DirChecker.initial_digest
    final_digest,   \* DirChecker.final_digest
    writes,         \* destination paths opened for writing, in order
    outcomes,       \* per attempted item: "written" | "skipped" | "raised"
    queried,        \* the last has_changed query: where and what it gave
    marker          \* whether last_changed.txt was written

mvars == <<mpath, mstream, mfile, mold, mpc, mexc, mrows>>
hvars == <<htree, htree2, hcwd, hcwdFiles, hpc, hres, hres2>>
svars == <<pc, exc, items, idx, fs, cwd, cwdFiles, initial_digest,
           final_digest, writes, outcomes, queried, marker>>
vars == <<mvars, hvars, svars>>

(***************************************************************************)
(* Text                                                                    *)
(***************************************************************************)
Ascii ==
    << " ", "!", "\"", "#", "$", "%", "&", "'", "(", ")", "*", "+", ",",
       "-", ".", "/", "0", "1", "2", "3", "4", "5", "6", "7", "8", "9", ":",
       ";", "<", "=", ">", "?", "@", "A", "B", "C", "D", "E", "F", "G", "H",
       "I", "J", "K", "L", "M", "N", "O", "P", "Q", "R", "S", "T", "U", "V",
       "W", "X", "Y", "Z", "[", "\\", "]", "^", "_", "grave", "a", "b", "c", "d",
       "e", "f", "g", "h", "i", "j", "k", "l", "m", "n", "o", "p", "q", "r",
       "s", "t", "u", "v", "w", "x", "y", "z", "{", "|", "}", "~" >>

AsciiChars == {Ascii[i] : i \in DOMAIN Ascii}

\* Code point of a printable character.
Ord == [c \in AsciiChars |-> 31 + (CHOOSE i \in DOMAIN Ascii : Ascii[i] = c)]

Digits == <<"0", "1", "2", "3", "4", "5", "6", "7", "8", "9">>

DigitChars == {Digits[i] : i \in DOMAIN Digits}

DigitValue(c) == (CHOOSE i \in DOMAIN Digits : Digits[i] = c) - 1

Whitespace == {" ", "\t", "\n", "\r"}

Max(a, b) == IF a >= b THEN a ELSE b

\* str.lower() on one character
LowerChar(c) ==
    IF c \in AsciiChars /\ Ord[c] >= 65 /\ Ord[c] <= 90
    THEN Ascii[Ord[c] + 32 - 31]
    ELSE c

Lower(s) == [i \in DOMAIN s |-> LowerChar(s[i])]

RECURSIVE LStrip(_)
LStrip(s) ==
    IF s # <<>> /\ Head(s) \in Whitespace THEN LStrip(Tail(s)) ELSE s

RECURSIVE RStrip(_)
RStrip(s) ==
    IF s # <<>> /\ s[Len(s)] \in Whitespace
    THEN RStrip(SubSeq(s, 1, Len(s) - 1))
    ELSE s

\* str.strip()
StripText(s) == RStrip(LStrip(s))

\* str < str: by code point, a proper prefix first
RECURSIVE TextLess(_, _)
TextLess(s, t) ==
    IF t = <<>> THEN FALSE
    ELSE IF s = <<>> THEN TRUE
    ELSE IF Head(s) = Head(t) THEN TextLess(Tail(s), Tail(t))
    ELSE Ord[Head(s)] < Ord[Head(t)]

\* str.split(sep) for a one-character separator
RECURSIVE SplitFrom(_, _, _)
SplitFrom(s, sep, cur) ==
    IF s = <<>> THEN <<cur>>
    ELSE IF Head(s) = sep THEN <<cur>> \o SplitFrom(Tail(s), sep, <<>>)
    ELSE SplitFrom(Tail(s), sep, Append(cur, Head(s)))

Split(s, sep) == SplitFrom(s, sep, <<>>)

\* sep.join(parts)
RECURSIVE Join(_, _)
Join(parts, sep) ==
    IF parts = <<>> THEN <<>>
    ELSE IF Len(parts) = 1 THEN parts[1]
    ELSE parts[1] \o <<sep>> \o Join(Tail(parts), sep)

\* concatenation of a sequence of texts
RECURSIVE Concat(_)
Concat(parts) ==
    IF parts = <<>> THEN <<>> ELSE Head(parts) \o Concat(Tail(parts))

\* sorted() on a list of str
RECURSIVE InsertText(_, _)
InsertText(sorted, x) ==
    IF sorted = <<>> THEN <<x>>
    ELSE IF TextLess(x, Head(sorted)) THEN <<x>> \o sorted
    ELSE <<Head(sorted)>> \o InsertText(Tail(sorted), x)

RECURSIVE SortTexts(_)
SortTexts(l) ==
    IF l = <<>> THEN <<>>
    ELSE InsertText(SortTexts(SubSeq(l, 1, Len(l) - 1)), l[Len(l)])

\* int(): an optional sign, then decimal digits
IsDecimal(s) ==
    LET body == IF s # <<>> /\ Head(s) \in {"+", "-"} THEN Tail(s) ELSE s
    IN  body # <<>> /\ \A i \in DOMAIN body : body[i] \in DigitChars

RECURSIVE DigitsValue(_)
DigitsValue(s) ==
    IF s = <<>> THEN 0
    ELSE 10 * DigitsValue(SubSeq(s, 1, Len(s) - 1)) + DigitValue(s[Len(s)])

ParseInt(s) ==
    IF Head(s) = "-" THEN 0 - DigitsValue(Tail(s))
    ELSE IF Head(s) = "+" THEN DigitsValue(Tail(s))
    ELSE DigitsValue(s)

\* str(int)
RECURSIVE NatText(_)
NatText(n) ==
    IF n < 10 THEN <<Digits[n + 1]>>
    ELSE NatText(n \div 10) \o <<Digits[(n % 10) + 1]>>

IntText(n) == IF n < 0 THEN <<"-">> \o NatText(0 - n) ELSE NatText(n)

(***************************************************************************)
(* Values of a row: None, a str or an int                                  *)
(***************************************************************************)
None == [t |-> "None", s |-> <<>>, n |-> 0]

StrVal(s) == [t |-> "str", s |-> s, n |-> 0]

IntVal(n) == [t |-> "int", s |-> <<>>, n |-> n]

Returned(v) == [exc |-> "none", val |-> v]

Raised(e) == [exc |-> e, val |-> None]

\* src/populate.py:28
noop(arg) == Returned(arg)

\* src/populate.py:44   None has no strip(): AttributeError
to_int(s) ==
    IF s.t = "None" THEN Raised("AttributeError")
    ELSE IF IsDecimal(StripText(s.s))
         THEN Returned(IntVal(ParseInt(StripText(s.s))))
         ELSE Raised("ValueError")

\* src/populate.py:49
strip(s) ==
    IF s.t = "None" THEN Raised("AttributeError")
    ELSE Returned(StrVal(StripText(s.s)))

\* src/populate.py:53
sort_strlist(s) ==
    IF s.t = "None" THEN Raised("AttributeError")
    ELSE Returned(StrVal(Join(SortTexts(Split(StripText(s.s), ",")), ",")))

\* fn(item) for the functions the strategies pass; "None" is zip_longest's
\* fill value for a missing function
Call(fn, item) ==
    CASE fn = "strip" -> strip(item)
      [] fn = "to_int" -> to_int(item)
      [] fn = "sort_strlist" -> sort_strlist(item)
      [] OTHER -> noop(item)

\* src/populate.py:33   the generator, consumed by list(): the first exception
\* ends it
RECURSIVE zip_fns_from(_, _, _, _)
zip_fns_from(iterable, fns, k, done) ==
    IF k > Max(Len(iterable), Len(fns)) THEN [exc |-> "none", row |-> done]
    ELSE LET item == IF k <= Len(iterable) THEN StrVal(iterable[k]) ELSE None
             fn == IF k <= Len(fns) THEN fns[k] ELSE "None"
             r == Call(fn, item)
         IN  IF r.exc # "none" THEN [exc |-> r.exc, row |-> <<>>]
             ELSE zip_fns_from(iterable, fns, k + 1, Append(done, r.val))

\* Variant: zip() in place of zip_longest(): stops at the shorter of the two.
zip_fns_shortest(iterable, fns) ==
    LET n == IF Len(iterable) < Len(fns) THEN Len(iterable) ELSE Len(fns)
    IN  zip_fns_from(SubSeq(iterable, 1, n), SubSeq(fns, 1, n), 1, <<>>)

zip_fns(iterable, fns) == zip_fns_from(iterable, fns, 1, <<>>)

\* < on two values of one type
ValLess(a, b) ==
    IF a.t = "int" /\ b.t = "int" THEN a.n < b.n ELSE TextLess(a.s, b.s)

\* list < list: the first differing position decides, a proper prefix first
RECURSIVE RowLess(_, _)
RowLess(r1, r2) ==
    IF r2 = <<>> THEN FALSE
    ELSE IF r1 = <<>> THEN TRUE
    ELSE IF Head(r1) = Head(r2) THEN RowLess(Tail(r1), Tail(r2))
    ELSE ValLess(Head(r1), Head(r2))

\* list.sort(reverse=...): stable in both directions
RECURSIVE InsertRow(_, _, _)
InsertRow(sorted, x, reverse) ==
    IF sorted = <<>> THEN <<x>>
    ELSE IF (IF reverse THEN RowLess(Head(sorted), x)
                        ELSE RowLess(x, Head(sorted)))
         THEN <<x>> \o sorted
         ELSE <<Head(sorted)>> \o InsertRow(Tail(sorted), x, reverse)

\* Variant: the rows are left in their input order.
SortRowsOmitted(rows, reverse) == rows

RECURSIVE SortRows(_, _)
SortRows(rows, reverse) ==
    IF rows = <<>> THEN <<>>
    ELSE InsertRow(SortRows(SubSeq(rows, 1, Len(rows) - 1), reverse),
                   rows[Len(rows)], reverse)

\* src/populate.py:58   the loop over source_rows, then rows.sort()
RECURSIVE mangle_loop(_, _, _)
mangle_loop(source_rows, fns, rows) ==
    IF source_rows = <<>> THEN [exc |-> "none", rows |-> rows]
    ELSE IF Head(source_rows) = <<>>
    THEN mangle_loop(Tail(source_rows), fns, rows)
    ELSE LET r == zip_fns(Head(source_rows), fns)
         IN  IF r.exc # "none" THEN [exc |-> r.exc, rows |-> <<>>]
             ELSE mangle_loop(Tail(source_rows), fns, Append(rows, r.row))

mangle_rows(source_rows, fns, reverse) ==
    LET r == mangle_loop(source_rows, fns, <<>>)
    IN  IF r.exc # "none" THEN r
        ELSE [exc |-> "none", rows |-> SortRows(r.rows, reverse)]

(***************************************************************************)
(* csv.reader and csv.writer (default dialect, QUOTE_MINIMAL)              *)
(***************************************************************************)
\* One line split into fields: a quote opens a quoted field only at the
\* start of a field, and a doubled quote inside it is one quote.
RECURSIVE csv_fields(_, _, _, _)
csv_fields(s, delim, cur, mode) ==
    IF s = <<>> THEN <<cur>>
    ELSE LET c == Head(s)
             r == Tail(s)
         IN  CASE mode = "quoted" ->
                    IF c = "\"" THEN csv_fields(r, delim, cur, "unquoted")
                    ELSE csv_fields(r, delim, Append(cur, c), "quoted")
               [] mode = "unquoted" ->
                    IF c = "\""
                    THEN csv_fields(r, delim, Append(cur, c), "quoted")
                    ELSE IF c = delim
                    THEN <<cur>> \o csv_fields(r, delim, <<>>, "start")
                    ELSE csv_fields(r, delim, Append(cur, c), "in")
               [] mode = "start" ->
                    IF c = "\"" THEN csv_fields(r, delim, cur, "quoted")
                    ELSE IF c = delim
                    THEN <<cur>> \o csv_fields(r, delim, <<>>, "start")
                    ELSE csv_fields(r, delim, Append(cur, c), "in")
               [] OTHER ->
                    IF c = delim
                    THEN <<cur>> \o csv_fields(r, delim, <<>>, "start")
                    ELSE csv_fields(r, delim, Append(cur, c), "in")

\* A blank line is the empty row.
csv_row(line, delim) ==
    IF line = <<>> THEN <<>> ELSE csv_fields(line, delim, <<>>, "start")

csv_reader(lines, delim) == [i \in DOMAIN lines |-> csv_row(lines[i], delim)]

NeedsQuote(s) == \E i \in DOMAIN s : s[i] \in {",", "\"", "\r", "\n"}

QuoteField(s) ==
    <<"\"">>
    \o Concat([i \in DOMAIN s |->
                  IF s[i] = "\"" THEN <<"\"", "\"">> ELSE <<s[i]>>])
    \o <<"\"">>

FieldText(v) ==
    IF v.t = "int" THEN IntText(v.n)
    ELSE IF NeedsQuote(v.s) THEN QuoteField(v.s)
    ELSE v.s

\* A row of one empty field is written as "" ; every row ends in \r\n.
writerow(row) ==
    (IF row = <<StrVal(<<>>)>> THEN <<"\"", "\"">>
     ELSE Join([i \in DOMAIN row |-> FieldText(row[i])], ","))
    \o <<"\r", "\n">>

writerows(rows) == Concat([i \in DOMAIN rows |-> writerow(rows[i])])

(***************************************************************************)
(* DataMangler                                                             *)
(***************************************************************************)
Absent == [exists |-> FALSE, bytes |-> <<>>]

File(b) == [exists |-> TRUE, bytes |-> b]

\* 'edge list'
KeyEdgeList ==
    <<"e", "d", "g", "e", " ", "l", "i", "s", "t">>

\* 'contact list'
KeyContactList ==
    <<"c", "o", "n", "t", "a", "c", "t", " ", "l", "i", "s", "t">>

\* 'synapse list'
KeySynapseList ==
    <<"s", "y", "n", "a", "p", "s", "e", " ", "l", "i", "s", "t">>

\* 'adjacency'
KeyAdjacency ==
    <<"a", "d", "j", "a", "c", "e", "n", "c", "y">>

\* The fixed header _parse_edgelist writes: Source, Target, Weight, Type
EdgeHeader ==
    << StrVal(<<"S", "o", "u", "r", "c", "e">>),
       StrVal(<<"T", "a", "r", "g", "e", "t">>),
       StrVal(<<"W", "e", "i", "g", "h", "t">>),
       StrVal(<<"T", "y", "p", "e">>) >>

\* key in title
Contains(title, key) ==
    \E i \in 1..(Len(title) - Len(key) + 1) :
        SubSeq(title, i, i + Len(key) - 1) = key

\* The last index of "." in a name, 0 when there is none (str.rfind + 1).
LastDot(name) ==
    IF \E i \in DOMAIN name : name[i] = "."
    THEN CHOOSE i \in DOMAIN name :
            name[i] = "." /\ \A j \in DOMAIN name : name[j] = "." => j <= i
    ELSE 0

\* PurePath.stem of a path: its last component without its last suffix
Stem(path) ==
    LET name == path[Len(path)]
        i == LastDot(name)
    IN  IF 1 < i /\ i < Len(name) THEN SubSeq(name, 1, i - 1) ELSE name

\* src/populate.py:86   the first key found in the title decides
get_strategy(path) ==
    LET title == Lower(Stem(path))
    IN  IF Contains(title, KeyEdgeList) THEN "_parse_edgelist"
        ELSE IF Contains(title, KeyContactList) THEN "_parse_contactlist"
        ELSE IF Contains(title, KeySynapseList) THEN "_parse_synapselist"
        ELSE IF Contains(title, KeyAdjacency) THEN "_parse_adjacency"
        ELSE "ValueError"

EdgeFns == <<"strip", "strip", "to_int", "strip">>

ContactFns ==
    <<"strip", "strip", "to_int", "to_int", "strip", "to_int", "to_int",
      "to_int">>

SynapseFns == <<"strip", "sort_strlist", "to_int", "to_int", "strip">>

\* [s.strip() for s in next(reader)]
StripHeader(row) == [i \in DOMAIN row |-> StrVal(StripText(row[i]))]

\* A strategy gives the exception that left it ("none": it returned), the
\* destination file as it leaves it, and what mangle_rows returned.
Outcome(e, file, rows) == [exc |-> e, file |-> file, rows |-> rows]

\* src/populate.py:99   next(lines) on an exhausted stream: StopIteration
parse_edgelist(lines, old) ==
    IF lines = <<>> THEN Outcome("StopIteration", old, <<>>)
    ELSE LET r == mangle_rows(csv_reader(Tail(lines), ","), EdgeFns, FALSE)
         IN  IF r.exc # "none" THEN Outcome(r.exc, old, <<>>)
             ELSE Outcome("none",
                          File(writerow(EdgeHeader) \o writerows(r.rows)),
                          r.rows)

\* src/populate.py:109
parse_contactlist(lines, old) ==
    IF lines = <<>> THEN Outcome("StopIteration", old, <<>>)
    ELSE LET headers == StripHeader(csv_row(Head(lines), "\t"))
             r == mangle_rows(csv_reader(Tail(lines), "\t"), ContactFns, FALSE)
         IN  IF r.exc # "none" THEN Outcome(r.exc, old, <<>>)
             ELSE Outcome("none",
                          File(writerow(headers) \o writerows(r.rows)),
                          r.rows)

\* src/populate.py:121
parse_synapselist(lines, old) ==
    IF lines = <<>> THEN Outcome("StopIteration", old, <<>>)
    ELSE LET headers == StripHeader(csv_row(Head(lines), ","))
             r == mangle_rows(csv_reader(Tail(lines), ","), SynapseFns, FALSE)
         IN  IF r.exc # "none" THEN Outcome(r.exc, old, <<>>)
             ELSE Outcome("none",
                          File(writerow(headers) \o writerows(r.rows)),
                          r.rows)

\* src/populate.py:133   the lines arrive without their terminators
parse_adjacency(lines, old) == Outcome("none", File(Concat(lines)), <<>>)

\* self.strategy(lines)
run_strategy(strategy, lines, old) ==
    CASE strategy = "_parse_edgelist" -> parse_edgelist(lines, old)
      [] strategy = "_parse_contactlist" -> parse_contactlist(lines, old)
      [] strategy = "_parse_synapselist" -> parse_synapselist(lines, old)
      [] OTHER -> parse_adjacency(lines, old)

(***************************************************************************)
(* Paths and fetched streams the specifications draw from                  *)
(***************************************************************************)
\* 'N2U'
DirSeries ==
    <<"N", "2", "U">>

\* 'Edge List.csv'
NameEdge ==
    <<"E", "d", "g", "e", " ", "L", "i", "s", "t", ".", "c", "s", "v">>

\* 'contact list.tsv'
NameContact ==
    <<"c", "o", "n", "t", "a", "c", "t", " ", "l", "i", "s", "t", ".",
      "t", "s", "v">>

\* 'synapse list.csv'
NameSynapse ==
    <<"s", "y", "n", "a", "p", "s", "e", " ", "l", "i", "s", "t", ".",
      "c", "s", "v">>

\* 'adjacency.csv'
NameAdjacency ==
    <<"a", "d", "j", "a", "c", "e", "n", "c", "y", ".", "c", "s", "v">>

\* 'notes.csv'
NameOther ==
    <<"n", "o", "t", "e", "s", ".", "c", "s", "v">>

\* 'adjacency edge list.csv'
NameBoth ==
    <<"a", "d", "j", "a", "c", "e", "n", "c", "y", " ", "e", "d", "g",
      "e", " ", "l", "i", "s", "t", ".", "c", "s", "v">>

PathEdge == <<DirSeries, NameEdge>>
PathContact == <<DirSeries, NameContact>>
PathSynapse == <<DirSeries, NameSynapse>>
PathAdjacency == <<DirSeries, NameAdjacency>>
PathOther == <<DirSeries, NameOther>>
PathBoth == <<DirSeries, NameBoth>>

\* 'Pre,Post,N'
HeaderCsv ==
    <<"P", "r", "e", ",", "P", "o", "s", "t", ",", "N">>

\* ' Pre\tPost'
HeaderTsv ==
    <<" ", "P", "r", "e", "\t", "P", "o", "s", "t">>

\* 'B,A,3,c'
E1 ==
    <<"B", ",", "A", ",", "3", ",", "c">>

\* 'a,B,1,c'
E2 ==
    <<"a", ",", "B", ",", "1", ",", "c">>

\* ' a ,B, 12,c'
E3 ==
    <<" ", "a", " ", ",", "B", ",", " ", "1", "2", ",", "c">>

\* 'a,B,1'  (three fields)
E4 ==
    <<"a", ",", "B", ",", "1">>

\* 'a,B,1,c,x'  (five fields)
E5 ==
    <<"a", ",", "B", ",", "1", ",", "c", ",", "x">>

\* 'a,B,x,c'  (weight is no integer)
E6 ==
    <<"a", ",", "B", ",", "x", ",", "c">>

\* 'b\ta\t2\t1\ts\t3\t4\t5'
K1 ==
    <<"b", "\t", "a", "\t", "2", "\t", "1", "\t", "s", "\t", "3", "\t",
      "4", "\t", "5">>

\* 'a\tb\t12\t1\ts\t3\t4\t5'
K2 ==
    <<"a", "\t", "b", "\t", "1", "2", "\t", "1", "\t", "s", "\t", "3",
      "\t", "4", "\t", "5">>

\* 'a\tb\t1\t1\ts\t3\t4'  (seven fields)
K3 ==
    <<"a", "\t", "b", "\t", "1", "\t", "1", "\t", "s", "\t", "3", "\t",
      "4">>

\* 'a\tb\t1\t1\ts\t3\t4\t5\tx'  (nine fields)
K4 ==
    <<"a", "\t", "b", "\t", "1", "\t", "1", "\t", "s", "\t", "3", "\t",
      "4", "\t", "5", "\t", "x">>

\* 'a\tb\tx\t1\ts\t3\t4\t5'  (preidx is no integer)
K5 ==
    <<"a", "\t", "b", "\t", "x", "\t", "1", "\t", "s", "\t", "3", "\t",
      "4", "\t", "5">>

\* 'a,"c,b",2,1,s'
S1 ==
    <<"a", ",", "\"", "c", ",", "b", "\"", ",", "2", ",", "1", ",", "s">>

\* 'a,"b,c",1,1,s'
S2 ==
    <<"a", ",", "\"", "b", ",", "c", "\"", ",", "1", ",", "1", ",", "s">>

\* 'a,b,2,1'  (four fields)
S3 ==
    <<"a", ",", "b", ",", "2", ",", "1">>

\* 'a,b,2,1,s,x'  (six fields)
S4 ==
    <<"a", ",", "b", ",", "2", ",", "1", ",", "s", ",", "x">>

\* 'a,b,x,1,s'  (the section count is no integer)
S5 ==
    <<"a", ",", "b", ",", "x", ",", "1", ",", "s">>

\* '0,1'
A1 ==
    <<"0", ",", "1">>

\* '1,0'
A2 ==
    <<"1", ",", "0">>

\* Most data lines of one fetched stream.
MaxRows == 2

SeqsUpTo(S, n) == UNION {[1..k -> S] : k \in 0..n}

\* The data lines a stream for a strategy may hold; <<>> is a blank line.
LinePool(strategy) ==
    CASE strategy = "_parse_edgelist" -> {E1, E2, E3, E4, E5, E6, <<>>}
      [] strategy = "_parse_contactlist" -> {K1, K2, K3, K4, K5, <<>>}
      [] strategy = "_parse_synapselist" -> {S1, S2, S3, S4, S5, <<>>}
      [] OTHER -> {A1, A2}

HeaderLine(strategy) ==
    IF strategy = "_parse_contactlist" THEN HeaderTsv ELSE HeaderCsv

\* The streams the fetch of a destination may return.
Streams(path) ==
    LET strategy == get_strategy(path)
    IN  {<<HeaderLine(strategy)>> \o rows :
            rows \in SeqsUpTo(LinePool(strategy), MaxRows)}

MangleDests ==
    {PathEdge, PathContact, PathSynapse, PathAdjacency, PathOther, PathBoth}

\* 'old'
OldBytes == <<"o", "l", "d">>

(***************************************************************************)
(* Directory trees and the digest                                          *)
(***************************************************************************)
EmptyTree == <<>>

IsProperPrefix(p, q) == Len(p) < Len(q) /\ SubSeq(q, 1, Len(p)) = p

\* Names of the directories directly under dir that hold files of the tree.
DirsIn(tree, dir) ==
    {p[Len(dir) + 1] : p \in {q \in DOMAIN tree :
                                 IsProperPrefix(dir, q) /\ Len(q) > Len(dir) + 1}}

\* Names of the files directly under dir.
FilesIn(tree, dir) ==
    {p[Len(dir) + 1] : p \in {q \in DOMAIN tree :
                                 IsProperPrefix(dir, q) /\ Len(q) = Len(dir) + 1}}

\* The names of a set as the filesystem lists them: in the order they have
\* in `order`, a sequence that holds every name once.
Listing(names, order) == SelectSeq(order, LAMBDA n : n \in names)

Perms(S) ==
    {f \in [1..Cardinality(S) -> S] : \A i, j \in DOMAIN f : i # j => f[i] # f[j]}

\* Every name of a tree, of files and directories alike.
NamesOf(tree) == UNION {{p[i] : i \in DOMAIN p} : p \in DOMAIN tree}

\* Variant: the names are taken in the order the filesystem listed them.
sorted_names_omitted(names) == names

\* src/populate.py:221   dirnames.sort() and sorted(filenames)
sorted_names(names) == SortTexts(names)

\* src/populate.py:220   os.walk(root), with the caller's sort of dirnames
\* steering the descent: the relative paths of the files in the order
\* hash_dirs hashes them. `pending` are the directories still to visit.
RECURSIVE walk(_, _, _, _)
walk(tree, pending, order, found) ==
    IF pending = <<>> THEN found
    ELSE LET dir == Head(pending)
             dirnames == sorted_names(Listing(DirsIn(tree, dir), order))
             filenames == sorted_names(Listing(FilesIn(tree, dir), order))
         IN  walk(tree,
                  [i \in DOMAIN dirnames |-> Append(dir, dirnames[i])]
                      \o Tail(pending),
                  order,
                  found \o [i \in DOMAIN filenames |-> Append(dir, filenames[i])])

\* src/populate.py:206   open(rel_path, 'rb'): a relative path is resolved
\* against the working directory of the process
open_rb(rel_path, tree, wd, wdFiles) ==
    IF wd = "root" THEN File(tree[rel_path])
    ELSE IF rel_path \in DOMAIN wdFiles THEN File(wdFiles[rel_path])
    ELSE Absent

\* src/populate.py:195   md5 is the text fed to the accumulator so far
hash_file(rel_path, md5, hash_path, tree, wd, wdFiles) ==
    LET f == open_rb(rel_path, tree, wd, wdFiles)
    IN  IF ~f.exists THEN [exc |-> "FileNotFoundError", fed |-> <<>>]
        ELSE [exc |-> "none",
              fed |-> md5 \o (IF hash_path THEN Concat(rel_path) ELSE <<>>)
                          \o f.bytes]

RECURSIVE hash_each(_, _, _, _, _)
hash_each(paths, md5, tree, wd, wdFiles) ==
    IF paths = <<>> THEN [exc |-> "none", fed |-> md5]
    ELSE LET r == hash_file(Head(paths), md5, TRUE, tree, wd, wdFiles)
         IN  IF r.exc # "none" THEN r
             ELSE hash_each(Tail(paths), r.fed, tree, wd, wdFiles)

\* src/populate.py:215
hash_dirs(tree, wd, wdFiles, order) ==
    hash_each(walk(tree, <<<<>>>>, order, <<>>), <<>>, tree, wd, wdFiles)

\* hexdigest() of an accumulator, the hash taken to be injective: the text
\* that was fed
NoDigest == [set |-> FALSE, hex |-> <<>>]

Digest(fed) == [set |-> TRUE, hex |-> fed]

(***************************************************************************)
(* Trees the digest specifications draw from                               *)
(***************************************************************************)
\* Most files of a tree, and most components of a relative path.
MaxFiles == 2

MaxDepth == 2

FileNames == {<<"a">>, <<"b">>, <<"a", "b">>}

DirNames == {<<"a">>, <<"b">>}

Contents == {<<>>, <<"b">>}

Paths ==
    {dirs \o <<f>> : dirs \in SeqsUpTo(DirNames, MaxDepth - 1), f \in FileNames}

PrefixFree(S) == \A p, q \in S : ~IsProperPrefix(p, q)

RECURSIVE PathSets(_)
PathSets(k) ==
    IF k = 0 THEN {{}}
    ELSE LET smaller == PathSets(k - 1)
         IN  smaller \cup {S \cup {p} : S \in smaller, p \in Paths}

Trees == UNION {[S -> Contents] : S \in {T \in PathSets(MaxFiles) : PrefixFree(T)}}

\* What another working directory may hold at the relative paths.
TreesElsewhere == {EmptyTree, (<<<<"a">>>> :> <<"b">>)}

WorkingDirs ==
    {[wd |-> "root", files |-> EmptyTree]}
    \cup {[wd |-> "elsewhere", files |-> t] : t \in TreesElsewhere}

\* The trees one change away from a tree: a file's bytes changed, a file
\* renamed or moved with its bytes kept, a file added, a file removed.
Without(tree, p) == [q \in DOMAIN tree \ {p} |-> tree[q]]

Edits(tree) ==
    {t \in
        {[tree EXCEPT ![p] = c] : p \in DOMAIN tree, c \in Contents}
        \cup {(q :> tree[p]) @@ Without(tree, p) :
                 p \in DOMAIN tree, q \in Paths \ DOMAIN tree}
        \cup {(q :> c) @@ tree : q \in Paths \ DOMAIN tree, c \in Contents}
        \cup {Without(tree, p) : p \in DOMAIN tree} :
     t # tree /\ PrefixFree(DOMAIN t)}

(***************************************************************************)
(* SpecMangle: one strategy run on one fetched stream                      *)
(***************************************************************************)
NotQueried == [state |-> "none", result |-> "none"]

InitMangle ==
    /\ mpath \in MangleDests
    /\ mstream \in Streams(mpath)
    /\ mold \in {Absent, File(OldBytes)}
    /\ mfile = mold
    /\ mpc = "ready"
    /\ mexc = "none"
    /\ mrows = <<>>
    /\ htree = EmptyTree
    /\ htree2 = EmptyTree
    /\ hcwd = "root"
    /\ hcwdFiles = EmptyTree
    /\ hpc = "idle"
    /\ hres = NoDigest
    /\ hres2 = NoDigest
    /\ pc = "idle"
    /\ exc = "none"
    /\ items = <<>>
    /\ idx = 1
    /\ fs = EmptyTree
    /\ cwd = "root"
    /\ cwdFiles = EmptyTree
    /\ initial_digest = NoDigest
    /\ final_digest = NoDigest
    /\ writes = <<>>
    /\ outcomes = <<>>
    /\ queried = NotQueried
    /\ marker = "unwritten"

\* DataMangler.process with the fetch answered by mstream
ParseEdgelist ==
    /\ mpc = "ready"
    /\ get_strategy(mpath) = "_parse_edgelist"
    /\ mfile' = parse_edgelist(mstream, mold).file
    /\ mexc' = parse_edgelist(mstream, mold).exc
    /\ mrows' = parse_edgelist(mstream, mold).rows
    /\ mpc' = "done"
    /\ UNCHANGED <<mpath, mstream, mold, hvars, svars>>

ParseContactlist ==
    /\ mpc = "ready"
    /\ get_strategy(mpath) = "_parse_contactlist"
    /\ mfile' = parse_contactlist(mstream, mold).file
    /\ mexc' = parse_contactlist(mstream, mold).exc
    /\ mrows' = parse_contactlist(mstream, mold).rows
    /\ mpc' = "done"
    /\ UNCHANGED <<mpath, mstream, mold, hvars, svars>>

ParseSynapselist ==
    /\ mpc = "ready"
    /\ get_strategy(mpath) = "_parse_synapselist"
    /\ mfile' = parse_synapselist(mstream, mold).file
    /\ mexc' = parse_synapselist(mstream, mold).exc
    /\ mrows' = parse_synapselist(mstream, mold).rows
    /\ mpc' = "done"
    /\ UNCHANGED <<mpath, mstream, mold, hvars, svars>>

ParseAdjacency ==
    /\ mpc = "ready"
    /\ get_strategy(mpath) = "_parse_adjacency"
    /\ mfile' = parse_adjacency(mstream, mold).file
    /\ mexc' = parse_adjacency(mstream, mold).exc
    /\ mrows' = parse_adjacency(mstream, mold).rows
    /\ mpc' = "done"
    /\ UNCHANGED <<mpath, mstream, mold, hvars, svars>>

\* DataMangler.__init__ raises ValueError: no file is opened
UnknownType ==
    /\ mpc = "ready"
    /\ get_strategy(mpath) = "ValueError"
    /\ mexc' = "ValueError"
    /\ mpc' = "done"
    /\ UNCHANGED <<mpath, mstream, mold, mfile, mrows, hvars, svars>>

MNext ==
    \/ ParseEdgelist
    \/ ParseContactlist
    \/ ParseSynapselist
    \/ ParseAdjacency
    \/ UnknownType

SpecMangle == InitMangle /\ [][MNext]_vars

(***************************************************************************)
(* SpecHash: one hash_dirs call on one tree                                *)
(***************************************************************************)
InitHash ==
    /\ htree \in Trees
    /\ htree2 = EmptyTree
    /\ \E w \in WorkingDirs : hcwd = w.wd /\ hcwdFiles = w.files
    /\ hpc = "ready"
    /\ hres = NoDigest
    /\ hres2 = NoDigest
    /\ mpath = PathOther
    /\ mstream = <<>>
    /\ mold = Absent
    /\ mfile = Absent
    /\ mpc = "idle"
    /\ mexc = "none"
    /\ mrows = <<>>
    /\ pc = "idle"
    /\ exc = "none"
    /\ items = <<>>
    /\ idx = 1
    /\ fs = EmptyTree
    /\ cwd = "root"
    /\ cwdFiles = EmptyTree
    /\ initial_digest = NoDigest
    /\ final_digest = NoDigest
    /\ writes = <<>>
    /\ outcomes = <<>>
    /\ queried = NotQueried
    /\ marker = "unwritten"

\* hash_dirs(root).hexdigest(), or the exception that left hash_dirs
Hashed(r) == [exc |-> r.exc, digest |-> IF r.exc = "none" THEN Digest(r.fed) ELSE NoDigest]

HashDirs ==
    /\ hpc = "ready"
    /\ \E order \in Perms(FileNames \cup DirNames) :
           hres' = Hashed(hash_dirs(htree, hcwd, hcwdFiles, order))
    /\ hpc' = "done"
    /\ UNCHANGED <<htree, htree2, hcwd, hcwdFiles, hres2, mvars, svars>>

SpecHash == InitHash /\ [][HashDirs]_vars

(***************************************************************************)
(* SpecHashPair: hash_dirs on a tree and on the tree one change away, the   *)
(* working directory being the digest root                                 *)
(***************************************************************************)
InitHashPair ==
    /\ htree \in Trees
    /\ htree2 \in Edits(htree)
    /\ hcwd = "root"
    /\ hcwdFiles = EmptyTree
    /\ hpc = "ready"
    /\ hres = NoDigest
    /\ hres2 = NoDigest
    /\ mpath = PathOther
    /\ mstream = <<>>
    /\ mold = Absent
    /\ mfile = Absent
    /\ mpc = "idle"
    /\ mexc = "none"
    /\ mrows = <<>>
    /\ pc = "idle"
    /\ exc = "none"
    /\ items = <<>>
    /\ idx = 1
    /\ fs = EmptyTree
    /\ cwd = "root"
    /\ cwdFiles = EmptyTree
    /\ initial_digest = NoDigest
    /\ final_digest = NoDigest
    /\ writes = <<>>
    /\ outcomes = <<>>
    /\ queried = NotQueried
    /\ marker = "unwritten"

HashDirsBoth ==
    /\ hpc = "ready"
    /\ \E order \in Perms(FileNames \cup DirNames) :
           /\ hres' = Hashed(hash_dirs(htree, hcwd, hcwdFiles, order))
           /\ hres2' = Hashed(hash_dirs(htree2, hcwd, hcwdFiles, order))
    /\ hpc' = "done"
    /\ UNCHANGED <<htree, htree2, hcwd, hcwdFiles, mvars, svars>>

SpecHashPair == InitHashPair /\ [][HashDirsBoth]_vars

(***************************************************************************)
(* Spec: main(), the session around a DirChecker                           *)
(***************************************************************************)
\* Most items get_paths() yields.
MaxItems == 2

ItemPool == {PathEdge, PathAdjacency, PathOther}

\* The mirror before the run; the first holds what _parse_edgelist writes
\* for the stream <<HeaderCsv, E1, E2>>.
Mirrors ==
    { EmptyTree,
      (PathEdge :> parse_edgelist(<<HeaderCsv, E1, E2>>, Absent).file.bytes),
      (PathAdjacency :> OldBytes) }

SessionDirs ==
    { [wd |-> "root", files |-> EmptyTree],
      [wd |-> "elsewhere", files |-> EmptyTree],
      [wd |-> "elsewhere", files |-> (PathEdge :> OldBytes)] }

\* The streams a fetch may return during the session.
SessionStreams(path) ==
    IF get_strategy(path) = "_parse_edgelist"
    THEN { <<HeaderCsv, E1, E2>>, <<HeaderCsv, E2>>, <<HeaderCsv, E2, E4>>,
           <<HeaderCsv, E6>> }
    ELSE { <<HeaderCsv, A1>> }

\* session.get(url) raises (a transport error), or returns a response with
\* an error status, or returns the lines.
Fetches(path) ==
    { [kind |-> "ConnectionError", lines |-> <<>>],
      [kind |-> "HTTPError", lines |-> <<>>] }
    \cup {[kind |-> "ok", lines |-> l] : l \in SessionStreams(path)}

FileAt(tree, path) ==
    IF path \in DOMAIN tree THEN File(tree[path]) ELSE Absent

\* src/populate.py:78 and 138   DataMangler(path, url).process(): the
\* constructor picks the strategy, process fetches, raises for an error
\* status, and runs the strategy
mangler_process(path, fetch, old) ==
    IF get_strategy(path) = "ValueError" THEN Outcome("ValueError", old, <<>>)
    ELSE IF fetch.kind # "ok" THEN Outcome(fetch.kind, old, <<>>)
    ELSE run_strategy(get_strategy(path), fetch.lines, old)

\* src/populate.py:233   except (HTTPError, ValueError)
Caught == {"HTTPError", "ValueError"}

\* src/populate.py:230   the exception that leaves process(), the file as it
\* leaves it, and whether the destination was opened for writing (every
\* strategy opens it once, as its last step before returning)
process(path, fetch, old) ==
    LET o == mangler_process(path, fetch, old)
    IN  [exc |-> IF o.exc \in Caught THEN "none" ELSE o.exc,
         file |-> o.file,
         opened |-> o.exc = "none",
         outcome |-> IF o.exc = "none" THEN "written"
                     ELSE IF o.exc \in Caught THEN "skipped"
                     ELSE "raised"]

\* DirChecker._get_digest: hash_dirs(root_dir).hexdigest()
get_digest(tree, wd, wdFiles, order) ==
    Hashed(hash_dirs(tree, wd, wdFiles, order))

Bool(b) == IF b THEN "True" ELSE "False"

\* Variant: a session not yet completed is an invalid state.
has_changed_completed_only(initial, final, tree, wd, wdFiles, order) ==
    IF ~initial.set \/ ~final.set THEN "RuntimeError"
    ELSE Bool(final # initial)

\* Variant: == in place of != .
has_changed_equal(initial, final, tree, wd, wdFiles, order) ==
    IF ~initial.set THEN "RuntimeError"
    ELSE IF final.set THEN Bool(final = initial)
    ELSE IF get_digest(tree, wd, wdFiles, order).exc # "none"
    THEN get_digest(tree, wd, wdFiles, order).exc
    ELSE Bool(get_digest(tree, wd, wdFiles, order).digest = initial)

\* src/populate.py:243   a hexdigest is never empty, so `final_digest or`
\* takes the fresh digest exactly when final_digest is None
has_changed(initial, final, tree, wd, wdFiles, order) ==
    IF ~initial.set THEN "RuntimeError"
    ELSE IF final.set THEN Bool(final # initial)
    ELSE IF get_digest(tree, wd, wdFiles, order).exc # "none"
    THEN get_digest(tree, wd, wdFiles, order).exc
    ELSE Bool(get_digest(tree, wd, wdFiles, order).digest # initial)

\* The session's state as the two recorded digests give it.
SessionState ==
    IF ~initial_digest.set THEN "NotStarted"
    ELSE IF ~final_digest.set THEN "InProgress"
    ELSE "Completed"

\* Variant: the batch may run while __enter__ is still walking the tree.
in_with_body_early == pc \in {"EnterWalk", "InProgress"}

\* src/populate.py:262   the body of the with statement runs after
\* __enter__ has returned and before __exit__ is called
in_with_body == pc = "InProgress"

\* Variant: the loop does not move on to the next item.
next_item_same(i) == i

\* src/populate.py:263   the for loop takes the next item
next_item(i) == i + 1

InitSession ==
    /\ pc = "NotStarted"
    /\ exc = "none"
    /\ items \in SeqsUpTo(ItemPool, MaxItems)
    /\ idx = 1
    /\ fs \in Mirrors
    /\ \E w \in SessionDirs : cwd = w.wd /\ cwdFiles = w.files
    /\ initial_digest = NoDigest
    /\ final_digest = NoDigest
    /\ writes = <<>>
    /\ outcomes = <<>>
    /\ queried = NotQueried
    /\ marker = "unwritten"
    /\ mpath = PathOther
    /\ mstream = <<>>
    /\ mold = Absent
    /\ mfile = Absent
    /\ mpc = "idle"
    /\ mexc = "none"
    /\ mrows = <<>>
    /\ htree = EmptyTree
    /\ htree2 = EmptyTree
    /\ hcwd = "root"
    /\ hcwdFiles = EmptyTree
    /\ hpc = "idle"
    /\ hres = NoDigest
    /\ hres2 = NoDigest

\* src/populate.py:253   __enter__ is called: the walk of the tree begins
Enter ==
    /\ pc = "NotStarted"
    /\ pc' = "EnterWalk"
    /\ UNCHANGED <<exc, items, idx, fs, cwd, cwdFiles, initial_digest,
                   final_digest, writes, outcomes, queried, marker>>
    /\ UNCHANGED <<mvars, hvars>>

\* src/populate.py:254   the walk ends: the digest is recorded, or the
\* exception of the walk leaves main()
EnterReturn ==
    /\ pc = "EnterWalk"
    /\ \E order \in Perms(NamesOf(fs)) :
          \E d \in {get_digest(fs, cwd, cwdFiles, order)} :
              /\ initial_digest' = d.digest
              /\ exc' = d.exc
              /\ pc' = IF d.exc = "none" THEN "InProgress" ELSE "Crashed"
    /\ UNCHANGED <<items, idx, fs, cwd, cwdFiles, final_digest, writes,
                   outcomes, queried, marker>>
    /\ UNCHANGED <<mvars, hvars>>

\* src/populate.py:263   one turn of the loop: process(path, url). An
\* exception that leaves process() leaves the loop, and __exit__ is called.
Process ==
    /\ in_with_body
    /\ idx <= Len(items)
    /\ \E fetch \in Fetches(items[idx]) :
          \E r \in {process(items[idx], fetch, FileAt(fs, items[idx]))} :
              /\ fs' = IF r.opened THEN (items[idx] :> r.file.bytes) @@ fs
                       ELSE fs
              /\ writes' = IF r.opened THEN Append(writes, items[idx])
                           ELSE writes
              /\ outcomes' = Append(outcomes, r.outcome)
              /\ exc' = r.exc
              /\ pc' = IF r.exc = "none" THEN pc ELSE "ExitWalk"
    /\ idx' = next_item(idx)
    /\ UNCHANGED <<items, cwd, cwdFiles, initial_digest, final_digest,
                   queried, marker>>
    /\ UNCHANGED <<mvars, hvars>>

\* src/populate.py:263   get_paths() is exhausted: the with block is left
\* and __exit__ is called
LoopEnd ==
    /\ pc = "InProgress"
    /\ idx > Len(items)
    /\ pc' = "ExitWalk"
    /\ UNCHANGED <<exc, items, idx, fs, cwd, cwdFiles, initial_digest,
                   final_digest, writes, outcomes, queried, marker>>
    /\ UNCHANGED <<mvars, hvars>>

\* src/populate.py:257   __exit__ returns None, so an exception of the body
\* goes on; an exception of the walk replaces it
ExitReturn ==
    /\ pc = "ExitWalk"
    /\ \E order \in Perms(NamesOf(fs)) :
          \E d \in {get_digest(fs, cwd, cwdFiles, order)} :
              /\ final_digest' = d.digest
              /\ exc' = IF d.exc # "none" THEN d.exc ELSE exc
              /\ pc' = IF d.exc = "none" /\ exc = "none" THEN "Completed"
                       ELSE "Crashed"
    /\ UNCHANGED <<items, idx, fs, cwd, cwdFiles, initial_digest, writes,
                   outcomes, queried, marker>>
    /\ UNCHANGED <<mvars, hvars>>

\* src/populate.py:266   if d.has_changed: write last_changed.txt
MainCheck ==
    /\ pc = "Completed"
    /\ \E order \in Perms(NamesOf(fs)) :
          \E res \in {has_changed(initial_digest, final_digest, fs, cwd,
                                   cwdFiles, order)} :
              /\ queried' = [state |-> SessionState, result |-> res]
              /\ marker' = IF res = "True" THEN "written" ELSE marker
    /\ pc' = "Done"
    /\ UNCHANGED <<exc, items, idx, fs, cwd, cwdFiles, initial_digest,
                   final_digest, writes, outcomes>>
    /\ UNCHANGED <<mvars, hvars>>

\* src/populate.py:243   has_changed read by a holder of the DirChecker
\* before the with statement or inside its body
Query ==
    /\ pc \in {"NotStarted", "InProgress"}
    /\ \E order \in Perms(NamesOf(fs)) :
          queried' = [state |-> SessionState,
                      result |-> has_changed(initial_digest, final_digest,
                                             fs, cwd, cwdFiles, order)]
    /\ UNCHANGED <<pc, exc, items, idx, fs, cwd, cwdFiles, initial_digest,
                   final_digest, writes, outcomes, marker>>
    /\ UNCHANGED <<mvars, hvars>>

Next ==
    \/ Enter
    \/ EnterReturn
    \/ Process
    \/ LoopEnd
    \/ ExitReturn
    \/ MainCheck
    \/ Query

Spec == InitSession /\ [][Next]_vars

(***************************************************************************)
(* Claims about the strategies (SpecMangle)                                *)
(***************************************************************************)
MStrategy == get_strategy(mpath)

Sorting == {"_parse_edgelist", "_parse_contactlist", "_parse_synapselist"}

FnsOf(strategy) ==
    CASE strategy = "_parse_edgelist" -> EdgeFns
      [] strategy = "_parse_contactlist" -> ContactFns
      [] OTHER -> SynapseFns

DelimOf(strategy) == IF strategy = "_parse_contactlist" THEN "\t" ELSE ","

\* The data rows of the stream as the strategy's csv.reader yields them.
DataRows == csv_reader(Tail(mstream), DelimOf(MStrategy))

Arity == Len(FnsOf(MStrategy))

HasShortRow == \E i \in DOMAIN DataRows :
                  DataRows[i] # <<>> /\ Len(DataRows[i]) < Arity

HasLongRow == \E i \in DOMAIN DataRows : Len(DataRows[i]) > Arity

\* Every field a to_int is applied to parses as an integer.
IntegersParse ==
    \A i \in DOMAIN DataRows : \A k \in DOMAIN DataRows[i] :
        (k <= Arity /\ FnsOf(MStrategy)[k] = "to_int")
            => IsDecimal(StripText(DataRows[i][k]))

\* C3 as stated: under the EdgeList, ContactList and SynapseList strategies a
\* non-empty data row with fewer or with more fields than the schema makes
\* the run fail, and the destination file is left as it was.
C3_WrongArityFailsUnwritten ==
    (mpc = "done" /\ MStrategy \in Sorting /\ (HasShortRow \/ HasLongRow))
        => (mexc # "none" /\ mfile = mold)

\* C3 amended: a non-empty data row with fewer fields than the schema makes
\* the run fail with an exception raised before the destination is opened,
\* so the file is left as it was; rows with more fields do not fail: with no
\* short row and every integer field parsing, the file is written and holds
\* every non-empty row.
C3_ShortRowFailsUnwritten ==
    (mpc = "done" /\ MStrategy \in Sorting)
        => /\ HasShortRow
                => (mexc \in {"AttributeError", "ValueError"} /\ mfile = mold)
           /\ (~HasShortRow /\ IntegersParse)
                => /\ mexc = "none"
                   /\ mfile.exists
                   /\ Len(mrows) =
                        Cardinality({i \in DOMAIN DataRows : DataRows[i] # <<>>})

\* C3 witness: a ContactList row of seven fields left an existing file as it
\* was.
C3_Witness ==
    /\ mpc = "done"
    /\ MStrategy = "_parse_contactlist"
    /\ HasShortRow
    /\ ~HasLongRow
    /\ mexc = "AttributeError"
    /\ mold.exists
    /\ mfile = mold

Permuted(stream, perm) ==
    <<Head(stream)>> \o [i \in DOMAIN perm |-> stream[perm[i] + 1]]

\* C8: when mangle_rows returns, it returns the same rows, and the strategy
\* writes the same file, for every reordering of the data lines.
C8_PermutationInvariant ==
    (mpc = "done" /\ MStrategy \in Sorting /\ mexc = "none")
        => \A perm \in Perms(1..(Len(mstream) - 1)) :
              LET o == run_strategy(MStrategy, Permuted(mstream, perm), mold)
              IN  o.exc = "none" /\ o.rows = mrows /\ o.file = mfile

\* C8 witness: two data rows arrived in an order that is not the sorted one.
C8_Witness ==
    /\ mpc = "done"
    /\ MStrategy \in Sorting
    /\ mexc = "none"
    /\ Len(mrows) = 2
    /\ mrows # mangle_loop(DataRows, FnsOf(MStrategy), <<>>).rows

(***************************************************************************)
(* Claims about the digest (SpecHash, SpecHashPair)                        *)
(***************************************************************************)
ListingOrders == Perms(FileNames \cup DirNames)

\* What the digest of a tree is to be: for each file in sorted walk order,
\* the components of its relative path, then the bytes of that file.
WalkOf(tree) == walk(tree, <<<<>>>>, CHOOSE o \in ListingOrders : TRUE, <<>>)

FedOf(tree) ==
    Concat([i \in DOMAIN WalkOf(tree) |->
               Concat(WalkOf(tree)[i]) \o tree[WalkOf(tree)[i]]])

\* C5 as stated: a tree one change away (a file's bytes changed, a file
\* renamed or moved, a file added or removed) has another digest.
C5_ChangedTreeChangesDigest ==
    hpc = "done" => hres.digest # hres2.digest

\* C7: whatever order the filesystem lists the names in, hash_dirs hashes
\* the same files in the same order and returns the same digest.
C7_ListingOrderIndependent ==
    hpc = "done"
        => \A order \in ListingOrders :
              /\ walk(htree, <<<<>>>>, order, <<>>) = WalkOf(htree)
              /\ Hashed(hash_dirs(htree, hcwd, hcwdFiles, order)) = hres

\* C7 witness: a digest was returned for a tree with two directories under
\* its root.
C7_Witness ==
    /\ hpc = "done"
    /\ hres.exc = "none"
    /\ Cardinality(DirsIn(htree, <<>>)) = 2

\* C10 as stated: hash_dirs returns, and its digest is that of the relative
\* paths and bytes of the files under the root, whatever the working
\* directory.
C10_DigestOfRootFiles ==
    hpc = "done" => (hres.exc = "none" /\ hres.digest = Digest(FedOf(htree)))

(***************************************************************************)
(* Claims about the session (Spec)                                         *)
(***************************************************************************)
Booleans == {"True", "False"}

\* C1 as stated: has_changed raises in every state but Completed, and gives
\* a boolean once Completed.
C1_RaisesUnlessCompleted ==
    /\ queried.state \in {"NotStarted", "InProgress"}
          => queried.result = "RuntimeError"
    /\ queried.state = "Completed" => queried.result \in Booleans

\* C1 amended: has_changed raises the invalid-state error exactly when no
\* 'before' digest is recorded; in progress it digests the tree as it is
\* and compares that with the 'before' digest, giving a boolean unless the
\* walk itself fails; once Completed it gives a boolean.
C1_RaisesOnlyBeforeEntered ==
    queried.state # "none"
        => /\ queried.result = "RuntimeError" <=> queried.state = "NotStarted"
           /\ queried.state = "InProgress"
                => queried.result \in Booleans \cup {"FileNotFoundError"}
           /\ queried.state = "Completed" => queried.result \in Booleans

\* C1 witness: read inside the with body after a write, has_changed gave
\* True.
C1_Witness ==
    /\ queried.state = "InProgress"
    /\ queried.result = "True"
    /\ pc = "InProgress"
    /\ writes # <<>>

\* C2 as stated: once the loop has been left, every item was attempted and
\* no exception left process().
C2_FailuresAreSkipped ==
    (initial_digest.set /\ pc \in {"ExitWalk", "Completed", "Done", "Crashed"})
        => (Len(outcomes) = Len(items)
            /\ \A i \in DOMAIN outcomes : outcomes[i] # "raised")

\* C4: an item is attempted, and a file written, only in the with body,
\* with the 'before' digest recorded and the 'after' walk not begun; and
\* once __exit__ has been called the body is not entered again.
C4_DigestsBoundTheBatch ==
    /\ [][ (outcomes' # outcomes \/ writes' # writes \/ fs' # fs)
              => (pc = "InProgress" /\ initial_digest.set
                  /\ ~final_digest.set) ]_vars
    /\ [][ (pc \in {"ExitWalk", "Completed", "Done", "Crashed"})
              => (pc' \notin {"NotStarted", "EnterWalk", "InProgress"}) ]_vars

\* C4 witness: the 'after' digest is recorded after a batch that wrote a
\* file and skipped an item.
C4_Witness ==
    /\ final_digest.set
    /\ writes # <<>>
    /\ \E i \in DOMAIN outcomes : outcomes[i] = "skipped"

\* C6: once Completed, has_changed is True exactly when the two recorded
\* digests differ, and False when no file was written; main() writes the
\* marker exactly when they differ.
C6_ChangedIffDigestsDiffer ==
    /\ queried.state = "Completed"
          => /\ queried.result \in Booleans
             /\ queried.result = "True" <=> initial_digest # final_digest
             /\ writes = <<>> => queried.result = "False"
    /\ pc = "Done" => (marker = "written" <=> initial_digest # final_digest)

\* C6 witness: no items over a mirror that is not empty: False.
C6_Witness ==
    /\ queried.state = "Completed"
    /\ queried.result = "False"
    /\ items = <<>>
    /\ fs # EmptyTree

Count(seq, x) == Cardinality({i \in DOMAIN seq : seq[i] = x})

\* C9 as stated: no destination path is opened for writing twice.
C9_PathWrittenOnce ==
    \A i, j \in DOMAIN writes : i # j => writes[i] # writes[j]

\* C9 amended: each item is attempted once, in order, and its destination
\* is opened for writing at most once for it: the paths written are those
\* of the items whose attempt wrote, so a path carried by k items is
\* written at most k times.
C9_WrittenOncePerItem ==
    /\ Len(outcomes) = idx - 1
    /\ idx <= Len(items) + 1
    /\ writes = [i \in 1..Len(writes) |->
                    items[CHOOSE k \in DOMAIN outcomes :
                            /\ outcomes[k] = "written"
                            /\ Cardinality({m \in 1..k :
                                              outcomes[m] = "written"}) = i]]
    /\ Len(writes) = Cardinality({k \in DOMAIN outcomes : outcomes[k] = "written"})

\* C9 witness: two items carried one destination, and it was written twice.
C9_Witness ==
    /\ Len(writes) = 2
    /\ writes[1] = writes[2]
    /\ final_digest.set

====
